---- MODULE Spec2Model ----
(***************************************************************************)
(* MilvusInserter (src/src/milvus_fake_data/milvus_inserter.py): the batch *)
(* insertion pipeline insert_data, its schema translation and its row      *)
(* projection, as a state machine over one insert_data call against a      *)
(* target whose client calls may fail.                                     *)
(***************************************************************************)
EXTENDS Integers, Sequences, FiniteSets, TLC

(***************************************************************************)
(* Bounds of the model.                                                    *)
(***************************************************************************)
MaxRows == 2
MaxBatch == 2
MaxFaults == 1

\* the fields of a schema whose helpers are called alone
MaxSchemaFields == 2

\* the entries of a sparse vector converted alone
MaxEntries == 3

\* the calls of close() on one object
MaxCloses == 1

\* the calls of test_connection on one object
MaxProbes == 3

(***************************************************************************)
(* Generic helpers.                                                        *)
(***************************************************************************)
Min(a, b) == IF a <= b THEN a ELSE b

RECURSIVE SeqsUpTo(_, _)
SeqsUpTo(S, n) ==
    IF n = 0 THEN {<<>>}
    ELSE LET shorter == SeqsUpTo(S, n - 1)
         IN  shorter \cup {Append(s, x) : s \in {t \in shorter : Len(t) = n - 1}, x \in S}

(***************************************************************************)
(* Characters and strings.  A string that the code parses or orders is a   *)
(* sequence of character codes: 0..9 are the digits '0'..'9', the others   *)
(* are named below.  Codes are ordered as the characters' code points are  *)
(* ordered only among the letters used for file names.                     *)
(***************************************************************************)
ChMinus == 10
ChPlus == 11
ChSpace == 12
ChUnderscore == 13
ChA == 14
ChB == 15
ChX == 16

IsDigit(c) == c \in 0..9

(***************************************************************************)
(* Values of a DataFrame cell and of a record passed to client.insert.     *)
(* Every value is a record of one shape:                                   *)
(*   tag "int"   vs = <<n>>            a scalar number                     *)
(*   tag "nan"                         a missing value (NaN / None / NaT)  *)
(*   tag "none"                        Python None in a record             *)
(*   tag "list"  vs = the numbers      a list / ndarray of numbers         *)
(*   tag "dict"  ks or ik = the keys, vs = the values, in insertion order; *)
(*               ks holds string keys, ik integer keys; a value Null is    *)
(*               Python None                                               *)
(***************************************************************************)
Null == 0 - 1

IntVal(n) == [tag |-> "int", ks |-> <<>>, ik |-> <<>>, vs |-> <<n>>]
NaNVal == [tag |-> "nan", ks |-> <<>>, ik |-> <<>>, vs |-> <<>>]
NoneVal == [tag |-> "none", ks |-> <<>>, ik |-> <<>>, vs |-> <<>>]
ListVal(xs) == [tag |-> "list", ks |-> <<>>, ik |-> <<>>, vs |-> xs]
StrDict(keys, vals) == [tag |-> "dict", ks |-> keys, ik |-> <<>>, vs |-> vals]
IntDict(keys, vals) == [tag |-> "dict", ks |-> <<>>, ik |-> keys, vs |-> vals]

\* The outcome of an operation that may raise.
Ok(v) == [ok |-> TRUE, val |-> v, err |-> ""]
Raise(e) == [ok |-> FALSE, val |-> NoneVal, err |-> e]

(***************************************************************************)
(* int(k) of line 462 on a string key: surrounding whitespace is stripped, *)
(* one sign is allowed, then decimal digits with single underscores        *)
(* between digits; anything else raises ValueError.                        *)
(***************************************************************************)
RECURSIVE StripLeft(_)
StripLeft(s) == IF s # <<>> /\ Head(s) = ChSpace THEN StripLeft(Tail(s)) ELSE s

RECURSIVE StripRight(_)
StripRight(s) ==
    IF s # <<>> /\ s[Len(s)] = ChSpace THEN StripRight(SubSeq(s, 1, Len(s) - 1)) ELSE s

\* digits with single underscores between them, and at least one digit
IsDigitString(s) ==
    /\ s # <<>>
    /\ \A k \in 1..Len(s) : IsDigit(s[k]) \/ s[k] = ChUnderscore
    /\ IsDigit(s[1])
    /\ IsDigit(s[Len(s)])
    /\ \A k \in 1..(Len(s) - 1) : ~(s[k] = ChUnderscore /\ s[k + 1] = ChUnderscore)

RECURSIVE DigitsValue(_, _)
DigitsValue(s, acc) ==
    IF s = <<>> THEN acc
    ELSE IF Head(s) = ChUnderscore THEN DigitsValue(Tail(s), acc)
    ELSE DigitsValue(Tail(s), 10 * acc + Head(s))

ParseInt(str) ==
    LET t == StripRight(StripLeft(str))
        signed == t # <<>> /\ Head(t) \in {ChMinus, ChPlus}
        body == IF signed THEN Tail(t) ELSE t
    IN  IF ~IsDigitString(body) THEN [ok |-> FALSE, n |-> 0]
        ELSE [ok |-> TRUE,
              n |-> IF signed /\ Head(t) = ChMinus
                    THEN 0 - DigitsValue(body, 0) ELSE DigitsValue(body, 0)]

(***************************************************************************)
(* Field Type Registry: _get_milvus_datatype.                              *)
(***************************************************************************)
TypeMapping ==
    [Bool |-> "BOOL", Int8 |-> "INT8", Int16 |-> "INT16", Int32 |-> "INT32",
     Int64 |-> "INT64", Float |-> "FLOAT", Double |-> "DOUBLE",
     String |-> "VARCHAR", VarChar |-> "VARCHAR", JSON |-> "JSON",
     Array |-> "ARRAY", FloatVector |-> "FLOAT_VECTOR",
     BinaryVector |-> "BINARY_VECTOR", Float16Vector |-> "FLOAT16_VECTOR",
     BFloat16Vector |-> "BFLOAT16_VECTOR",
     SparseFloatVector |-> "SPARSE_FLOAT_VECTOR"]

\* a faulty variant: a name outside the table is taken for a string
GetMilvusDatatypeDefaults(field_type) ==
    IF field_type \notin DOMAIN TypeMapping
    THEN [ok |-> TRUE, val |-> "VARCHAR", err |-> ""]
    ELSE [ok |-> TRUE, val |-> TypeMapping[field_type], err |-> ""]

GetMilvusDatatype(field_type) ==
    IF field_type \notin DOMAIN TypeMapping
    THEN [ok |-> FALSE, val |-> "", err |-> "ValueError: Unknown field type"]
    ELSE [ok |-> TRUE, val |-> TypeMapping[field_type], err |-> ""]

\* the test `"Vector" in field_type` on the type names the model uses
VectorNames ==
    {"FloatVector", "BinaryVector", "Float16Vector", "BFloat16Vector",
     "SparseFloatVector"}

ContainsVector(field_type) == field_type \in VectorNames

(***************************************************************************)
(* Vector Codec: _convert_single_vector_data.  ml is whether the import of *)
(* ml_dtypes succeeds.  A list holds bytes 0..255.                         *)
(***************************************************************************)
\* uint8_array.view(<16 bit type>): consecutive byte pairs, little endian
RECURSIVE PairUp(_)
PairUp(bytes) ==
    IF Len(bytes) < 2 THEN <<>>
    ELSE <<bytes[1] + 256 * bytes[2]>> \o PairUp(SubSeq(bytes, 3, Len(bytes)))

ViewAs16(tag, v) ==
    IF Len(v.vs) % 2 # 0 THEN Raise("ValueError: view size")
    ELSE Ok([tag |-> tag, ks |-> <<>>, ik |-> <<>>, vs |-> PairUp(v.vs)])

\* int(k) of each key of a dict: a string key is parsed, an integer key is itself
KeyInts(v) ==
    IF v.ik # <<>> THEN [j \in 1..Len(v.ik) |-> [ok |-> TRUE, n |-> v.ik[j]]]
    ELSE [j \in 1..Len(v.ks) |-> ParseInt(v.ks[j])]

\* a faulty variant: an entry whose weight is None is kept
RECURSIVE SparseComprehensionKeepsNone(_, _, _, _)
SparseComprehensionKeepsNone(keys, vals, outk, outv) ==
    IF keys = <<>> THEN Ok(IntDict(outk, outv))
    ELSE LET p == Head(keys)
         IN  IF ~p.ok THEN Raise("ValueError: invalid literal for int()")
             ELSE IF \E j \in 1..Len(outk) : outk[j] = p.n
                  THEN SparseComprehensionKeepsNone(Tail(keys), Tail(vals), outk,
                           [j \in 1..Len(outv) |->
                               IF outk[j] = p.n THEN Head(vals) ELSE outv[j]])
             ELSE SparseComprehensionKeepsNone(Tail(keys), Tail(vals),
                                               Append(outk, p.n), Append(outv, Head(vals)))

\* {int(k): v for k, v in vector_data.items() if v is not None}
RECURSIVE SparseComprehension(_, _, _, _)
SparseComprehension(keys, vals, outk, outv) ==
    IF keys = <<>> THEN Ok(IntDict(outk, outv))
    ELSE IF Head(vals) = Null
         THEN SparseComprehension(Tail(keys), Tail(vals), outk, outv)
    ELSE LET p == Head(keys)
         IN  IF ~p.ok THEN Raise("ValueError: invalid literal for int()")
             ELSE IF \E j \in 1..Len(outk) : outk[j] = p.n
                  THEN SparseComprehension(Tail(keys), Tail(vals), outk,
                           [j \in 1..Len(outv) |->
                               IF outk[j] = p.n THEN Head(vals) ELSE outv[j]])
             ELSE SparseComprehension(Tail(keys), Tail(vals),
                                      Append(outk, p.n), Append(outv, Head(vals)))

ConvertSingleVectorData(vector_data, field_type, ml) ==
    IF field_type = "Float16Vector"
    THEN IF vector_data.tag = "list" THEN ViewAs16("f16", vector_data)
         ELSE Ok(vector_data)
    ELSE IF field_type = "BFloat16Vector"
    THEN IF ~ml THEN Ok(vector_data)
         ELSE IF vector_data.tag = "list" THEN ViewAs16("bf16", vector_data)
         ELSE Ok(vector_data)
    ELSE IF field_type = "BinaryVector"
    THEN IF vector_data.tag = "list"
         THEN Ok([tag |-> "bytes", ks |-> <<>>, ik |-> <<>>, vs |-> vector_data.vs])
         ELSE Ok(vector_data)
    ELSE IF field_type = "SparseFloatVector"
    THEN IF vector_data.tag = "dict"
         THEN SparseComprehension(KeyInts(vector_data), vector_data.vs, <<>>, <<>>)
         ELSE Ok(vector_data)
    ELSE Ok(vector_data)

(***************************************************************************)
(* Metadata (meta.json).  A field descriptor carries what the code reads   *)
(* of it; a document says which keys it has.                               *)
(***************************************************************************)
Field(name, type, is_primary, auto_id) ==
    [name |-> name, type |-> type, is_primary |-> is_primary, auto_id |-> auto_id,
     element_type |-> ""]

ArrayField(name, element_type) ==
    [name |-> name, type |-> "Array", is_primary |-> FALSE, auto_id |-> FALSE,
     element_type |-> element_type]

Document(json_ok, has_schema, has_name, has_fields, fields) ==
    [json_ok |-> json_ok, has_schema |-> has_schema, has_name |-> has_name,
     has_fields |-> has_fields, collection_name |-> "t", fields |-> fields]

\* a faulty variant: no field is skipped
IsAutoIdFieldNever(column_name, fields) == FALSE

\* _is_auto_id_field
IsAutoIdField(column_name, fields) ==
    \E k \in 1..Len(fields) : fields[k].name = column_name /\ fields[k].auto_id

(***************************************************************************)
(* Row Projector: _convert_dataframe_to_dict_list.  A DataFrame is its set *)
(* of columns and its rows, each row a function on the column names the    *)
(* model uses.  A record is the sequence of its <<key, value>> items in    *)
(* insertion order.                                                        *)
(***************************************************************************)
\* record[field_name] = value
SetItem(record, key, value) ==
    IF \E j \in 1..Len(record) : record[j][1] = key
    THEN [j \in 1..Len(record) |->
             IF record[j][1] = key THEN <<key, value>> ELSE record[j]]
    ELSE Append(record, <<key, value>>)

Keys(record) == {record[j][1] : j \in 1..Len(record)}

\* is the truth value of pd.isna(value) defined, and what is it (line 410)
IsNaTruth(value) ==
    IF value.tag \in {"list", "f16", "bf16", "bytes"}
    THEN IF Len(value.vs) = 1 THEN Ok(FALSE) ELSE Raise("ValueError: truth value")
    ELSE Ok(value.tag \in {"nan", "none"})

\* lines 398-417: the value of one field of one row
ConvertCell(value, field_type, ml) ==
    IF ContainsVector(field_type) THEN ConvertSingleVectorData(value, field_type, ml)
    ELSE LET na == IsNaTruth(value)
         IN  IF ~na.ok THEN Raise(na.err)
             ELSE IF na.val THEN Ok(NoneVal)
             ELSE IF value.tag = "timestamp"
                  THEN Ok([value EXCEPT !.tag = "datetime"])
             ELSE Ok(value)

\* a faulty variant: a declared field is read whether or not it is a column
HasColumnAlways(field_name, columns) == TRUE

\* line 395: field_name in df.columns
HasColumn(field_name, columns) == field_name \in columns

\* lines 386-417: the fields of one row, in declared order
RECURSIVE ConvertRow(_, _, _, _, _, _)
ConvertRow(row, columns, fields, k, record, ml) ==
    IF k > Len(fields) THEN [ok |-> TRUE, val |-> record, err |-> ""]
    ELSE LET f == fields[k]
         IN  IF IsAutoIdField(f.name, fields)
             THEN ConvertRow(row, columns, fields, k + 1, record, ml)
             ELSE IF ~HasColumn(f.name, columns)
             THEN ConvertRow(row, columns, fields, k + 1, record, ml)
             ELSE LET c == ConvertCell(row[f.name], f.type, ml)
                  IN  IF ~c.ok THEN [ok |-> FALSE, val |-> <<>>, err |-> c.err]
                      ELSE ConvertRow(row, columns, fields, k + 1,
                                      SetItem(record, f.name, c.val), ml)

\* lines 382-421: every row of the batch, in order
RECURSIVE ConvertRows(_, _, _, _, _, _)
ConvertRows(rows, columns, fields, k, data_list, ml) ==
    IF k > Len(rows) THEN [ok |-> TRUE, val |-> data_list, err |-> ""]
    ELSE LET r == ConvertRow(rows[k], columns, fields, 1, <<>>, ml)
         IN  IF ~r.ok THEN [ok |-> FALSE, val |-> <<>>, err |-> r.err]
             ELSE ConvertRows(rows, columns, fields, k + 1, Append(data_list, r.val), ml)

ConvertDataframeToDictList(df, fields, ml) ==
    ConvertRows(df.rows, df.columns, fields, 1, <<>>, ml)

(***************************************************************************)
(* Schema Translator: _create_schema, _create_index_params and             *)
(* _get_index_info.                                                        *)
(***************************************************************************)
\* one schema.add_field call (lines 226-278)
AddField(f) ==
    LET t == GetMilvusDatatype(f.type)
        e == GetMilvusDatatype(f.element_type)
    IN  IF ~t.ok THEN [ok |-> FALSE, val |-> <<>>, err |-> t.err]
        ELSE IF f.type = "Array" /\ f.element_type # "" /\ ~e.ok
        THEN [ok |-> FALSE, val |-> <<>>, err |-> e.err]
        ELSE [ok |-> TRUE, err |-> "",
              val |-> <<[field_name |-> f.name, datatype |-> t.val,
                         is_primary |-> f.is_primary, auto_id |-> f.auto_id,
                         has_dim |-> ContainsVector(f.type) /\ f.type # "SparseFloatVector",
                         element_type |-> IF f.type = "Array" /\ f.element_type # ""
                                          THEN e.val ELSE ""]>>]

RECURSIVE AddFields(_, _, _)
AddFields(fields, k, schema) ==
    IF k > Len(fields) THEN [ok |-> TRUE, val |-> schema, err |-> ""]
    ELSE LET a == AddField(fields[k])
         IN  IF ~a.ok THEN a ELSE AddFields(fields, k + 1, schema \o a.val)

\* metadata["schema"]["fields"] raises KeyError when a key is missing
CreateSchema(doc) ==
    IF ~doc.has_schema \/ ~doc.has_fields
    THEN [ok |-> FALSE, val |-> <<>>, err |-> "KeyError"]
    ELSE AddFields(doc.fields, 1, <<>>)

\* a faulty variant: every index that is not sparse measures L2
IndexOfAlwaysL2(f) ==
    IF f.type = "SparseFloatVector"
    THEN [field_name |-> f.name, index_name |-> <<"sparse_inverted_index_", f.name>>,
          index_type |-> "SPARSE_INVERTED_INDEX",
          metric_type |-> "IP", drop_ratio_build |-> "0.2"]
    ELSE [field_name |-> f.name, index_name |-> <<>>, index_type |-> "",
          metric_type |-> "L2", drop_ratio_build |-> ""]

\* lines 292-311: the index of one vector field.  An index_name <<>>, an
\* index_type "" and a drop_ratio_build "" are arguments add_index is not given,
\* so that the client takes its defaults
IndexOf(f) ==
    IF f.type = "SparseFloatVector"
    THEN [field_name |-> f.name, index_name |-> <<"sparse_inverted_index_", f.name>>,
          index_type |-> "SPARSE_INVERTED_INDEX",
          metric_type |-> "IP", drop_ratio_build |-> "0.2"]
    ELSE [field_name |-> f.name, index_name |-> <<>>, index_type |-> "",
          metric_type |-> IF f.type = "BinaryVector" THEN "HAMMING" ELSE "L2",
          drop_ratio_build |-> ""]

RECURSIVE CreateIndexParams(_)
CreateIndexParams(fields) ==
    IF fields = <<>> THEN <<>>
    ELSE (IF ContainsVector(Head(fields).type) THEN <<IndexOf(Head(fields))>> ELSE <<>>)
         \o CreateIndexParams(Tail(fields))

\* lines 326-347: the summary of one vector field's index
IndexInfoOf(f) ==
    IF f.type = "SparseFloatVector"
    THEN [field |-> f.name, index_type |-> "SPARSE_INVERTED_INDEX", metric_type |-> "IP"]
    ELSE [field |-> f.name, index_type |-> "AUTOINDEX",
          metric_type |-> IF f.type = "BinaryVector" THEN "HAMMING" ELSE "L2"]

RECURSIVE GetIndexInfo(_)
GetIndexInfo(fields) ==
    IF fields = <<>> THEN <<>>
    ELSE (IF ContainsVector(Head(fields).type) THEN <<IndexInfoOf(Head(fields))>> ELSE <<>>)
         \o GetIndexInfo(Tail(fields))

(***************************************************************************)
(* sorted(data_path.glob("*.parquet")): file names in lexicographic order. *)
(***************************************************************************)
RECURSIVE LexLess(_, _)
LexLess(a, b) ==
    IF a = <<>> THEN b # <<>>
    ELSE IF b = <<>> THEN FALSE
    ELSE IF Head(a) # Head(b) THEN Head(a) < Head(b)
    ELSE LexLess(Tail(a), Tail(b))

\* a faulty variant: shorter names first
RECURSIVE SortedShortestFirst(_)
SortedShortestFirst(S) ==
    IF S = {} THEN <<>>
    ELSE LET least == CHOOSE x \in S :
                          \A y \in S \ {x} :
                              Len(x) < Len(y) \/ (Len(x) = Len(y) /\ LexLess(x, y))
         IN  <<least>> \o SortedShortestFirst(S \ {least})

RECURSIVE Sorted(_)
Sorted(S) ==
    IF S = {} THEN <<>>
    ELSE LET least == CHOOSE x \in S : \A y \in S \ {x} : LexLess(x, y)
         IN  <<least>> \o Sorted(S \ {least})

(***************************************************************************)
(* The inputs of one insert_data call.                                     *)
(***************************************************************************)
CollectionNames == {"t", "o"}

\* the arguments; collection_name "" is None
ArgsPool ==
    [collection_name : {"", "o"}, drop_if_exists : BOOLEAN,
     batch_size : 0..MaxBatch, show_progress : BOOLEAN]

PlainFields == <<Field("id", "Int64", TRUE, FALSE), Field("v", "FloatVector", FALSE, FALSE)>>
SparseFields == <<Field("id", "Int64", TRUE, FALSE), Field("v", "SparseFloatVector", FALSE, FALSE)>>
AutoIdFields == <<Field("id", "Int64", TRUE, TRUE), Field("v", "SparseFloatVector", FALSE, FALSE)>>
BFloatFields == <<Field("id", "Int64", TRUE, FALSE), Field("h", "BFloat16Vector", FALSE, FALSE)>>
UnknownFields == <<Field("id", "Int64", TRUE, FALSE), Field("x", "Mystery", FALSE, FALSE)>>
UnknownElementFields == <<Field("id", "Int64", TRUE, FALSE), ArrayField("tags", "Mystery")>>

\* the contents meta.json may have
MetaPool ==
    {Document(FALSE, FALSE, FALSE, FALSE, <<>>),
     Document(TRUE, FALSE, FALSE, FALSE, <<>>),
     Document(TRUE, TRUE, FALSE, TRUE, PlainFields),
     Document(TRUE, TRUE, TRUE, FALSE, <<>>),
     Document(TRUE, TRUE, TRUE, TRUE, SparseFields),
     Document(TRUE, TRUE, TRUE, TRUE, AutoIdFields),
     Document(TRUE, TRUE, TRUE, TRUE, BFloatFields),
     Document(TRUE, TRUE, TRUE, TRUE, UnknownFields),
     Document(TRUE, TRUE, TRUE, TRUE, UnknownElementFields)}

NoDocument == Document(FALSE, FALSE, FALSE, FALSE, <<>>)

\* the columns the data files of a dataset may have: with or without "id"
ColumnSets == {{"id", "v", "h"}, {"v", "h"}}

\* the data of every schema has all columns; that of the sparse schema may lack "id"
ColumnSetsOf(doc) ==
    IF doc.fields = SparseFields THEN ColumnSets ELSE {{"id", "v", "h"}}

\* the dataset directory: does it exist, does it hold meta.json, its content, and
\* the columns of its data files
FsPool ==
    {[path_exists |-> FALSE, meta_exists |-> FALSE, doc |-> NoDocument, columns |-> {}],
     [path_exists |-> TRUE, meta_exists |-> FALSE, doc |-> NoDocument, columns |-> {}]}
    \cup UNION {{[path_exists |-> TRUE, meta_exists |-> TRUE, doc |-> d, columns |-> c] :
                    c \in ColumnSetsOf(d)} : d \in MetaPool}

\* the *.parquet files a directory may hold: "b" and "ab"
FileNames == {<<ChB>>, <<ChA, ChB>>}

\* the rows a data file may hold: {"3": 1} converts, {"x": 1} and an odd
\* number of bytes do not
ColumnNames == {"id", "v", "h"}
GoodRow == [c \in ColumnNames |->
              CASE c = "id" -> IntVal(1)
                [] c = "v" -> StrDict(<<<<3>>>>, <<1>>)
                [] c = "h" -> ListVal(<<1, 2>>)]
BadRow == [c \in ColumnNames |->
              CASE c = "id" -> IntVal(2)
                [] c = "v" -> StrDict(<<<<ChX>>>>, <<1>>)
                [] c = "h" -> ListVal(<<1>>)]
RowPool == {GoodRow, BadRow}

\* the DataFrames pd.read_parquet may return for a file of the dataset: "b" is a
\* short file, of one row at most
Frames(name, columns) ==
    [columns : {columns},
     rows : SeqsUpTo(RowPool, IF name = <<ChB>> THEN 1 ELSE MaxRows)]

\* line 437: ml_dtypes is imported only to convert a BFloat16Vector field
ImportsMlDtypes(fields) == \E k \in 1..Len(fields) : fields[k].type = "BFloat16Vector"

EmptyFrame == [columns |-> {}, rows |-> <<>>]

(***************************************************************************)
(* State.                                                                  *)
(***************************************************************************)
VARIABLES
    args,                  \* the arguments of the call
    fs,                    \* the dataset directory
    ml_dtypes,             \* whether `import ml_dtypes` succeeds
    target,                \* the target service: its collections and their rows
    pc,                    \* where insert_data is
    final_collection_name,
    parquet_files,
    file_idx,              \* which of parquet_files the outer loop is at
    df,                    \* the DataFrame of the current file
    i,                     \* the row offset of the next batch
    total_inserted,
    failed_batches,
    progress,              \* rows the progress bar of the current file advanced
    result,                \* what the call returned or raised
    calls,                 \* the client calls made, in order
    attempts,              \* the batches attempted, in order, with their outcome
    files_read,            \* the name, len(df) and rows of each file read so far, in order
    target0,               \* the target as it was before the call
    faults,                \* the client and read failures so far
    prev,                  \* the previous call on the same dataset, if any
    connection,            \* the client connection made by __init__
    lab                    \* the argument and the value of a helper called alone

vars == <<args, fs, ml_dtypes, target, pc, final_collection_name, parquet_files,
          file_idx, df, i, total_inserted, failed_batches, progress, result,
          calls, attempts, files_read, target0, faults, prev, connection, lab>>

\* what belongs to one call of insert_data
locals == <<args, fs, ml_dtypes, pc, final_collection_name, parquet_files, file_idx,
            df, i, total_inserted, failed_batches, progress, result, attempts,
            files_read, prev>>

NoResult ==
    [kind |-> "none", error |-> "", collection_name |-> "", total_inserted |-> 0,
     failed_batches |-> <<>>, indexes_created |-> <<>>, collection_loaded |-> FALSE]

Error(e) == [NoResult EXCEPT !.kind = "error", !.error = e]

ClientCall(op, name, data, schema, index_params, ok) ==
    [op |-> op, collection_name |-> name, data |-> data, schema |-> schema,
     index_params |-> index_params, ok |-> ok]

\* no call came before this one
NoPrev == [kind |-> "none", replay |-> FALSE, parquet_files |-> <<>>,
           files_read |-> <<>>, calls |-> <<>>, result |-> NoResult]

\* lines 42-57: __init__ returns with the client connected
Connected == [open |-> TRUE, closes |-> 0]

\* no helper is being called alone
NoLab == [op |-> "none"]

\* the outcomes a call to the target (or a file read) may have
Budget == IF faults < MaxFaults THEN BOOLEAN ELSE {TRUE}

\* the outcomes the next call to the target may have: when the target behaves
\* as it did at the previous call, the outcome it gave then
Outcomes ==
    IF ~prev.replay THEN Budget
    ELSE IF Len(calls) < Len(prev.calls) THEN {prev.calls[Len(calls) + 1].ok}
    ELSE {TRUE}

\* the outcomes the next pd.read_parquet may have: when the dataset behaves
\* as it did at the previous call, a file that could not be read then cannot
\* be read now
ReadOutcomes ==
    IF ~prev.replay THEN Budget
    ELSE {~(prev.result.error = "read_parquet" /\ Len(files_read) = Len(prev.files_read))}

\* the arguments, the dataset, the environment and the target of a call
Inputs ==
    /\ args \in ArgsPool
    /\ fs \in FsPool
    /\ ml_dtypes \in (IF ImportsMlDtypes(fs.doc.fields) THEN BOOLEAN ELSE {TRUE})
    /\ \E existing \in {{}, CollectionNames} :
          target = [collections |-> existing,
                    rows |-> [n \in CollectionNames |-> IF n \in existing THEN 1 ELSE 0],
                    flushed |-> {}, loaded |-> {}]

\* insert_data is entered
Entered ==
    /\ target0 = target
    /\ files_read = <<>>
    /\ pc = "validate"
    /\ final_collection_name = ""
    /\ parquet_files = <<>>
    /\ file_idx = 1
    /\ df = EmptyFrame
    /\ i = 0
    /\ total_inserted = 0
    /\ failed_batches = <<>>
    /\ progress = 0
    /\ result = NoResult
    /\ calls = <<>>
    /\ attempts = <<>>

Init ==
    /\ Inputs
    /\ Entered
    /\ faults = 0
    /\ prev = NoPrev
    /\ connection = Connected
    /\ lab = NoLab

\* an exception leaves insert_data
Raised(e) ==
    /\ pc' = "raised"
    /\ result' = Error(e)

(***************************************************************************)
(* insert_data, step by step.                                              *)
(***************************************************************************)
\* lines 81-93: the dataset path, meta.json and the collection name
Validate ==
    /\ pc = "validate"
    /\ IF ~fs.path_exists
       THEN Raised("FileNotFoundError: Data path not found")
            /\ UNCHANGED final_collection_name
       ELSE IF ~fs.meta_exists
       THEN Raised("FileNotFoundError: meta.json not found")
            /\ UNCHANGED final_collection_name
       ELSE IF ~fs.doc.json_ok
       THEN Raised("JSONDecodeError") /\ UNCHANGED final_collection_name
       ELSE IF args.collection_name # ""
       THEN /\ final_collection_name' = args.collection_name
            /\ pc' = "has_collection"
            /\ UNCHANGED result
       ELSE IF ~fs.doc.has_schema \/ ~fs.doc.has_name
       THEN Raised("KeyError") /\ UNCHANGED final_collection_name
       ELSE /\ final_collection_name' = fs.doc.collection_name
            /\ pc' = "has_collection"
            /\ UNCHANGED result
    /\ UNCHANGED <<prev, connection, lab, args, fs, ml_dtypes, target, parquet_files, file_idx, df, i,
                   total_inserted, failed_batches, progress, calls, attempts, files_read,
                   target0, faults>>

\* a faulty variant: a collection that does not exist is dropped too
ExistsPolicyDropsMissing(exists, drop_if_exists) ==
    IF drop_if_exists THEN "drop" ELSE IF exists THEN "conflict" ELSE "create"

\* a faulty variant: an existing collection is kept when it may be replaced
ExistsPolicyKeeps(exists, drop_if_exists) ==
    IF exists /\ ~drop_if_exists THEN "conflict" ELSE "create"

\* a faulty variant: an existing collection is always replaced
ExistsPolicyReplaces(exists, drop_if_exists) == IF exists THEN "drop" ELSE "create"

\* lines 96-106: what follows has_collection
ExistsPolicy(exists, drop_if_exists) ==
    IF exists THEN (IF drop_if_exists THEN "drop" ELSE "conflict") ELSE "create"

\* lines 96-106: client.has_collection and the conflict policy
HasCollection ==
    /\ pc = "has_collection"
    /\ \E ok \in Outcomes :
          /\ calls' = Append(calls,
                 ClientCall("has_collection", final_collection_name, <<>>, <<>>, <<>>, ok))
          /\ faults' = IF ok THEN faults ELSE faults + 1
          /\ IF ~ok THEN Raised("ClientError: has_collection")
             ELSE LET then == ExistsPolicy(final_collection_name \in target.collections,
                                           args.drop_if_exists)
                  IN  IF then = "conflict" THEN Raised("ValueError: already exists")
                      ELSE pc' = then /\ UNCHANGED result
    /\ UNCHANGED <<prev, connection, lab, args, fs, ml_dtypes, target, final_collection_name, parquet_files,
                   file_idx, df, i, total_inserted, failed_batches, progress, attempts,
                   files_read, target0>>

\* what drop_collection does to the target
Dropped(t, name) ==
    [t EXCEPT !.collections = @ \ {name}, !.rows[name] = 0,
              !.flushed = @ \ {name}, !.loaded = @ \ {name}]

\* line 98: client.drop_collection
DropCollection ==
    /\ pc = "drop"
    /\ \E ok \in Outcomes :
          /\ calls' = Append(calls,
                 ClientCall("drop_collection", final_collection_name, <<>>, <<>>, <<>>, ok))
          /\ faults' = IF ok THEN faults ELSE faults + 1
          /\ IF ok
             THEN /\ target' = Dropped(target, final_collection_name)
                  /\ pc' = "create"
                  /\ UNCHANGED result
             ELSE Raised("ClientError: drop_collection") /\ UNCHANGED target
    /\ UNCHANGED <<prev, connection, lab, args, fs, ml_dtypes, final_collection_name, parquet_files,
                   file_idx, df, i, total_inserted, failed_batches, progress, attempts,
                   files_read, target0>>

\* what create_collection does to the target: an existing collection keeps its rows
Created(t, name) ==
    [t EXCEPT !.collections = @ \cup {name},
              !.rows[name] = IF name \in t.collections THEN @ ELSE 0]

\* a faulty variant: a failure of create_collection is swallowed
CreateCollectionSwallowsError ==
    /\ pc = "create"
    /\ LET schema == CreateSchema(fs.doc)
       IN  IF ~schema.ok
           THEN Raised(schema.err) /\ UNCHANGED <<target, calls, faults>>
           ELSE \E ok \in Outcomes :
                   /\ calls' = Append(calls,
                          ClientCall("create_collection", final_collection_name, <<>>,
                                     schema.val, CreateIndexParams(fs.doc.fields), ok))
                   /\ faults' = IF ok THEN faults ELSE faults + 1
                   /\ IF ok
                      THEN /\ target' = Created(target, final_collection_name)
                           /\ pc' = "glob"
                           /\ UNCHANGED result
                      ELSE pc' = "glob" /\ UNCHANGED <<target, result>>
    /\ UNCHANGED <<prev, connection, lab, args, fs, ml_dtypes, final_collection_name, parquet_files,
                   file_idx, df, i, total_inserted, failed_batches, progress, attempts,
                   files_read, target0>>

\* lines 109-120: _create_schema, _create_index_params, client.create_collection
CreateCollection ==
    /\ pc = "create"
    /\ LET schema == CreateSchema(fs.doc)
       IN  IF ~schema.ok
           THEN Raised(schema.err) /\ UNCHANGED <<target, calls, faults>>
           ELSE \E ok \in Outcomes :
                   /\ calls' = Append(calls,
                          ClientCall("create_collection", final_collection_name, <<>>,
                                     schema.val, CreateIndexParams(fs.doc.fields), ok))
                   /\ faults' = IF ok THEN faults ELSE faults + 1
                   /\ IF ok
                      THEN /\ target' = Created(target, final_collection_name)
                           /\ pc' = "glob"
                           /\ UNCHANGED result
                      ELSE Raised("ClientError: create_collection") /\ UNCHANGED target
    /\ UNCHANGED <<prev, connection, lab, args, fs, ml_dtypes, final_collection_name, parquet_files,
                   file_idx, df, i, total_inserted, failed_batches, progress, attempts,
                   files_read, target0>>

\* the *.parquet files the directory may hold: those it held at the previous call
Listings ==
    IF prev.kind # "listed" THEN SUBSET FileNames
    ELSE {{prev.parquet_files[k] : k \in 1..Len(prev.parquet_files)}}

\* the DataFrames pd.read_parquet may return for a file: what it returned at the
\* previous call
FramesOf(name) ==
    IF \E k \in 1..Len(prev.files_read) : prev.files_read[k].name = name
    THEN {[columns |-> fs.columns, rows |-> prev.files_read[k].rows] :
              k \in {j \in 1..Len(prev.files_read) : prev.files_read[j].name = name}}
    ELSE Frames(name, fs.columns)

\* lines 123-129: the data files of the directory, sorted
FindFiles ==
    /\ pc = "glob"
    /\ \E listing \in Listings :
          /\ parquet_files' = Sorted(listing)
          /\ IF listing = {}
             THEN Raised("FileNotFoundError: No parquet files found")
             ELSE pc' = "read" /\ UNCHANGED result
    /\ file_idx' = 1
    /\ total_inserted' = 0
    /\ failed_batches' = <<>>
    /\ UNCHANGED <<prev, connection, lab, args, fs, ml_dtypes, target, final_collection_name, df, i,
                   progress, calls, attempts, files_read, target0, faults>>

\* lines 131-136 and the start of the batch loop (151, 179): read one file
ReadFile ==
    /\ pc = "read"
    /\ file_idx <= Len(parquet_files)
    /\ \E ok \in ReadOutcomes :
          /\ faults' = IF ok THEN faults ELSE faults + 1
          /\ IF ~ok
             THEN Raised("read_parquet") /\ UNCHANGED <<df, file_idx, files_read>>
             ELSE \E frame \in FramesOf(parquet_files[file_idx]) :
                     /\ df' = frame
                     /\ files_read' = Append(files_read,
                            [name |-> parquet_files[file_idx], n |-> Len(frame.rows),
                             rows |-> frame.rows])
                     /\ IF args.batch_size = 0
                        THEN Raised("ValueError: range() arg 3 must not be zero")
                             /\ UNCHANGED file_idx
                        ELSE IF Len(frame.rows) = 0
                        THEN pc' = "read" /\ file_idx' = file_idx + 1 /\ UNCHANGED result
                        ELSE pc' = "batch" /\ UNCHANGED <<file_idx, result>>
    /\ i' = 0
    /\ progress' = 0
    /\ UNCHANGED <<prev, connection, lab, args, fs, ml_dtypes, target, final_collection_name, parquet_files,
                   total_inserted, failed_batches, calls, attempts, target0>>

\* a faulty variant: every slice but the first starts one row early
BatchRowsOverlapping(rows, offset, size) ==
    SubSeq(rows, IF offset = 0 THEN 1 ELSE offset, Min(offset + size, Len(rows)))

\* df.iloc[i : i + batch_size]
BatchRows(rows, offset, size) == SubSeq(rows, offset + 1, Min(offset + size, Len(rows)))

\* a faulty variant: a 1-based batch number
BatchIndexOneBased(offset, size) == offset \div size + 1

\* i // batch_size
BatchIndex(offset, size) == offset \div size

\* lines 169-175 and 194-200: the entry appended to failed_batches
BatchFailure(file, offset, size, err) ==
    [file |-> file, batch |-> BatchIndex(offset, size), error |-> err]

\* a faulty variant: the batch size is counted, not the rows of the batch
CountedBatchSize(total, batch) == total + args.batch_size

\* total_inserted += len(batch_df)
Counted(total, batch) == total + Len(batch)

\* what a successful insert does to the target
Inserted(t, name, data) == [t EXCEPT !.rows[name] = @ + Len(data)]

\* a faulty variant: a failed batch ends the loops
LoopOnAbortsOnFailure ==
    /\ i' = i + args.batch_size
    /\ IF failed_batches' # failed_batches
       THEN pc' = "read" /\ file_idx' = Len(parquet_files) + 1
       ELSE IF i + args.batch_size < Len(df.rows)
       THEN pc' = "batch" /\ UNCHANGED file_idx
       ELSE pc' = "read" /\ file_idx' = file_idx + 1

\* the batch loop of lines 151 and 179 moves on: the next batch of this file,
\* or the next file
LoopOn ==
    /\ i' = i + args.batch_size
    /\ IF i + args.batch_size < Len(df.rows)
       THEN pc' = "batch" /\ UNCHANGED file_idx
       ELSE pc' = "read" /\ file_idx' = file_idx + 1

Attempt(outcome) ==
    [file |-> parquet_files[file_idx], file_no |-> file_idx, offset |-> i,
     rows |-> BatchRows(df.rows, i, args.batch_size), outcome |-> outcome]

\* a faulty variant: with the progress bar, a batch the target refuses is not
\* recorded as failed
InsertBatchWithProgressForgetsFailure ==
    /\ pc = "batch"
    /\ args.show_progress
    /\ LET batch == BatchRows(df.rows, i, args.batch_size)
           data == ConvertDataframeToDictList(
                       [columns |-> df.columns, rows |-> batch], fs.doc.fields, ml_dtypes)
       IN  IF ~data.ok
           THEN /\ failed_batches' = Append(failed_batches,
                       BatchFailure(parquet_files[file_idx], i, args.batch_size, data.err))
                /\ attempts' = Append(attempts, Attempt("convert_error"))
                /\ UNCHANGED <<total_inserted, target, calls, faults>>
           ELSE \E ok \in Outcomes :
                   /\ calls' = Append(calls,
                          ClientCall("insert", final_collection_name, data.val, <<>>, <<>>, ok))
                   /\ faults' = IF ok THEN faults ELSE faults + 1
                   /\ IF ok
                      THEN /\ target' = Inserted(target, final_collection_name, data.val)
                           /\ total_inserted' = Counted(total_inserted, batch)
                           /\ attempts' = Append(attempts, Attempt("ok"))
                           /\ UNCHANGED failed_batches
                      ELSE /\ attempts' = Append(attempts, Attempt("insert_error"))
                           /\ UNCHANGED <<failed_batches, total_inserted, target>>
    /\ progress' = progress + Len(BatchRows(df.rows, i, args.batch_size))
    /\ LoopOn
    /\ UNCHANGED <<prev, connection, lab, args, fs, ml_dtypes, final_collection_name, parquet_files, df, result,
                   files_read, target0>>

\* lines 151-176: one batch, with the progress bar
InsertBatchWithProgress ==
    /\ pc = "batch"
    /\ args.show_progress
    /\ LET batch == BatchRows(df.rows, i, args.batch_size)
           data == ConvertDataframeToDictList(
                       [columns |-> df.columns, rows |-> batch], fs.doc.fields, ml_dtypes)
       IN  IF ~data.ok
           THEN /\ failed_batches' = Append(failed_batches,
                       BatchFailure(parquet_files[file_idx], i, args.batch_size, data.err))
                /\ attempts' = Append(attempts, Attempt("convert_error"))
                /\ UNCHANGED <<total_inserted, target, calls, faults>>
           ELSE \E ok \in Outcomes :
                   /\ calls' = Append(calls,
                          ClientCall("insert", final_collection_name, data.val, <<>>, <<>>, ok))
                   /\ faults' = IF ok THEN faults ELSE faults + 1
                   /\ IF ok
                      THEN /\ target' = Inserted(target, final_collection_name, data.val)
                           /\ total_inserted' = Counted(total_inserted, batch)
                           /\ attempts' = Append(attempts, Attempt("ok"))
                           /\ UNCHANGED failed_batches
                      ELSE /\ failed_batches' = Append(failed_batches,
                                  BatchFailure(parquet_files[file_idx], i, args.batch_size,
                                               "ClientError: insert"))
                           /\ attempts' = Append(attempts, Attempt("insert_error"))
                           /\ UNCHANGED <<total_inserted, target>>
    /\ progress' = progress + Len(BatchRows(df.rows, i, args.batch_size))
    /\ LoopOn
    /\ UNCHANGED <<prev, connection, lab, args, fs, ml_dtypes, final_collection_name, parquet_files, df, result,
                   files_read, target0>>

\* a faulty variant: the conversion is made outside the try, so that what it
\* raises leaves insert_data
InsertBatchNoProgressUnguarded ==
    /\ pc = "batch"
    /\ ~args.show_progress
    /\ LET batch == BatchRows(df.rows, i, args.batch_size)
           data == ConvertDataframeToDictList(
                       [columns |-> df.columns, rows |-> batch], fs.doc.fields, ml_dtypes)
       IN  IF ~data.ok
           THEN /\ Raised(data.err)
                /\ attempts' = Append(attempts, Attempt("convert_error"))
                /\ UNCHANGED <<failed_batches, total_inserted, target, calls, faults, i,
                               file_idx>>
           ELSE \E ok \in Outcomes :
                   /\ calls' = Append(calls,
                          ClientCall("insert", final_collection_name, data.val, <<>>, <<>>, ok))
                   /\ faults' = IF ok THEN faults ELSE faults + 1
                   /\ IF ok
                      THEN /\ target' = Inserted(target, final_collection_name, data.val)
                           /\ total_inserted' = Counted(total_inserted, batch)
                           /\ attempts' = Append(attempts, Attempt("ok"))
                           /\ UNCHANGED failed_batches
                      ELSE /\ failed_batches' = Append(failed_batches,
                                  BatchFailure(parquet_files[file_idx], i, args.batch_size,
                                               "ClientError: insert"))
                           /\ attempts' = Append(attempts, Attempt("insert_error"))
                           /\ UNCHANGED <<total_inserted, target>>
                   /\ LoopOn
                   /\ UNCHANGED result
    /\ UNCHANGED <<prev, connection, lab, args, fs, ml_dtypes, final_collection_name, parquet_files, df,
                   progress, files_read, target0>>

\* lines 179-200: one batch, without the progress bar
InsertBatchNoProgress ==
    /\ pc = "batch"
    /\ ~args.show_progress
    /\ LET batch == BatchRows(df.rows, i, args.batch_size)
           data == ConvertDataframeToDictList(
                       [columns |-> df.columns, rows |-> batch], fs.doc.fields, ml_dtypes)
       IN  IF ~data.ok
           THEN /\ failed_batches' = Append(failed_batches,
                       BatchFailure(parquet_files[file_idx], i, args.batch_size, data.err))
                /\ attempts' = Append(attempts, Attempt("convert_error"))
                /\ UNCHANGED <<total_inserted, target, calls, faults>>
           ELSE \E ok \in Outcomes :
                   /\ calls' = Append(calls,
                          ClientCall("insert", final_collection_name, data.val, <<>>, <<>>, ok))
                   /\ faults' = IF ok THEN faults ELSE faults + 1
                   /\ IF ok
                      THEN /\ target' = Inserted(target, final_collection_name, data.val)
                           /\ total_inserted' = Counted(total_inserted, batch)
                           /\ attempts' = Append(attempts, Attempt("ok"))
                           /\ UNCHANGED failed_batches
                      ELSE /\ failed_batches' = Append(failed_batches,
                                  BatchFailure(parquet_files[file_idx], i, args.batch_size,
                                               "ClientError: insert"))
                           /\ attempts' = Append(attempts, Attempt("insert_error"))
                           /\ UNCHANGED <<total_inserted, target>>
    /\ LoopOn
    /\ UNCHANGED <<prev, connection, lab, args, fs, ml_dtypes, final_collection_name, parquet_files, df,
                   progress, result, files_read, target0>>

\* a faulty variant: the loop is left after the first file
LoopDoneAfterFirstFile == file_idx > 1

\* line 131: the loop over parquet_files is exhausted
LoopDone == file_idx > Len(parquet_files)

\* line 203: client.flush, after the loop over the files
Flush ==
    /\ pc = "read"
    /\ LoopDone
    /\ \E ok \in Outcomes :
          /\ calls' = Append(calls,
                 ClientCall("flush", final_collection_name, <<>>, <<>>, <<>>, ok))
          /\ faults' = IF ok THEN faults ELSE faults + 1
          /\ IF ok
             THEN /\ target' = [target EXCEPT !.flushed = @ \cup {final_collection_name}]
                  /\ pc' = "load"
                  /\ UNCHANGED result
             ELSE Raised("ClientError: flush") /\ UNCHANGED target
    /\ UNCHANGED <<prev, connection, lab, args, fs, ml_dtypes, final_collection_name, parquet_files, file_idx,
                   df, i, total_inserted, failed_batches, progress, attempts,
                   files_read, target0>>

\* lines 213-219: the report
Report ==
    [kind |-> "report", error |-> "", collection_name |-> final_collection_name,
     total_inserted |-> total_inserted, failed_batches |-> failed_batches,
     indexes_created |-> GetIndexInfo(fs.doc.fields), collection_loaded |-> TRUE]

\* a faulty variant: a failure of load_collection is swallowed
LoadCollectionSwallowsError ==
    /\ pc = "load"
    /\ \E ok \in Outcomes :
          /\ calls' = Append(calls,
                 ClientCall("load_collection", final_collection_name, <<>>, <<>>, <<>>, ok))
          /\ faults' = IF ok THEN faults ELSE faults + 1
          /\ IF ok
             THEN /\ target' = [target EXCEPT !.loaded = @ \cup {final_collection_name}]
                  /\ pc' = "done"
                  /\ result' = Report
             ELSE pc' = "done" /\ result' = Report /\ UNCHANGED target
    /\ UNCHANGED <<prev, connection, lab, args, fs, ml_dtypes, final_collection_name, parquet_files, file_idx,
                   df, i, total_inserted, failed_batches, progress, attempts,
                   files_read, target0>>

\* lines 207-219: client.load_collection, then the report is returned
LoadCollection ==
    /\ pc = "load"
    /\ \E ok \in Outcomes :
          /\ calls' = Append(calls,
                 ClientCall("load_collection", final_collection_name, <<>>, <<>>, <<>>, ok))
          /\ faults' = IF ok THEN faults ELSE faults + 1
          /\ IF ok
             THEN /\ target' = [target EXCEPT !.loaded = @ \cup {final_collection_name}]
                  /\ pc' = "done"
                  /\ result' = Report
             ELSE Raised("ClientError: load_collection") /\ UNCHANGED target
    /\ UNCHANGED <<prev, connection, lab, args, fs, ml_dtypes, final_collection_name, parquet_files, file_idx,
                   df, i, total_inserted, failed_batches, progress, attempts,
                   files_read, target0>>

Next ==
    \/ Validate
    \/ HasCollection
    \/ DropCollection
    \/ CreateCollection
    \/ FindFiles
    \/ ReadFile
    \/ InsertBatchWithProgress
    \/ InsertBatchNoProgress
    \/ Flush
    \/ LoadCollection

Spec == Init /\ [][Next]_vars

(***************************************************************************)
(* insert_data called twice in succession with drop_if_exists on the same  *)
(* dataset and a target none of whose calls fails.                         *)
(***************************************************************************)
InitTwice ==
    /\ Inputs
    /\ Entered
    /\ args.drop_if_exists
    /\ faults = MaxFaults
    /\ prev = NoPrev
    /\ connection = Connected
    /\ lab = NoLab

\* whether the call that ended listed the data files (line 123)
Listed ==
    \/ parquet_files # <<>>
    \/ result.error = "FileNotFoundError: No parquet files found"

\* the first call has ended: insert_data is called again with the same arguments
CallAgain ==
    /\ pc \in {"done", "raised"}
    /\ prev.kind = "none"
    /\ prev' = [kind |-> IF Listed THEN "listed" ELSE "called", replay |-> FALSE,
                parquet_files |-> parquet_files, files_read |-> files_read,
                calls |-> calls, result |-> result]
    /\ pc' = "validate"
    /\ final_collection_name' = ""
    /\ parquet_files' = <<>>
    /\ file_idx' = 1
    /\ df' = EmptyFrame
    /\ i' = 0
    /\ total_inserted' = 0
    /\ failed_batches' = <<>>
    /\ progress' = 0
    /\ result' = NoResult
    /\ calls' = <<>>
    /\ attempts' = <<>>
    /\ files_read' = <<>>
    /\ target0' = target
    /\ UNCHANGED <<args, fs, ml_dtypes, target, faults, connection, lab>>

NextTwice ==
    \/ Next
    \/ CallAgain

SpecTwice == InitTwice /\ [][NextTwice]_vars

(***************************************************************************)
(* insert_data called with the progress bar, then called on the same       *)
(* dataset and the same target without it.                                 *)
(***************************************************************************)
InitProgress ==
    /\ Inputs
    /\ Entered
    /\ args.show_progress
    /\ faults = 0
    /\ prev = NoPrev
    /\ connection = Connected
    /\ lab = NoLab

\* the call with the progress bar has ended: the same call is made with
\* show_progress = False, on a target that is as it was before the first call
\* and that answers the calls as it answered them then
CallWithoutProgress ==
    /\ pc \in {"done", "raised"}
    /\ prev.kind = "none"
    /\ prev' = [kind |-> IF Listed THEN "listed" ELSE "called", replay |-> TRUE,
                parquet_files |-> parquet_files, files_read |-> files_read,
                calls |-> calls, result |-> result]
    /\ args' = [args EXCEPT !.show_progress = FALSE]
    /\ target' = target0
    /\ faults' = 0
    /\ pc' = "validate"
    /\ final_collection_name' = ""
    /\ parquet_files' = <<>>
    /\ file_idx' = 1
    /\ df' = EmptyFrame
    /\ i' = 0
    /\ total_inserted' = 0
    /\ failed_batches' = <<>>
    /\ progress' = 0
    /\ result' = NoResult
    /\ calls' = <<>>
    /\ attempts' = <<>>
    /\ files_read' = <<>>
    /\ UNCHANGED <<fs, ml_dtypes, target0, connection, lab>>

NextProgress ==
    \/ Next
    \/ CallWithoutProgress

SpecProgress == InitProgress /\ [][NextProgress]_vars

(***************************************************************************)
(* close(), which insert_data never calls: the caller may call it once     *)
(* insert_data has returned or raised.                                     *)
(***************************************************************************)
\* lines 484-490: client.close(); what it raises is logged and swallowed, and the
\* connection is then as it was
Close ==
    /\ pc \in {"idle", "done", "raised"}
    /\ connection.closes < MaxCloses
    /\ \E ok \in Outcomes :
          /\ faults' = IF ok THEN faults ELSE faults + 1
          /\ connection' = [open |-> connection.open /\ ~ok,
                            closes |-> connection.closes + 1]
    /\ UNCHANGED <<locals, target, target0, calls, lab>>

NextSession ==
    \/ Next
    \/ Close

SpecSession == Init /\ [][NextSession]_vars

(***************************************************************************)
(* The helper methods called alone, on an object whose insert_data is not  *)
(* running.                                                                *)
(***************************************************************************)
NoTarget == [collections |-> {}, rows |-> [n \in CollectionNames |-> 0],
             flushed |-> {}, loaded |-> {}]

Idle ==
    /\ args = [collection_name |-> "", drop_if_exists |-> FALSE, batch_size |-> 1,
               show_progress |-> FALSE]
    /\ fs = [path_exists |-> FALSE, meta_exists |-> FALSE, doc |-> NoDocument,
             columns |-> {}]
    /\ ml_dtypes = TRUE
    /\ pc = "idle"
    /\ final_collection_name = ""
    /\ parquet_files = <<>>
    /\ file_idx = 1
    /\ df = EmptyFrame
    /\ i = 0
    /\ total_inserted = 0
    /\ failed_batches = <<>>
    /\ progress = 0
    /\ result = NoResult
    /\ attempts = <<>>
    /\ files_read = <<>>
    /\ prev = NoPrev

(***************************************************************************)
(* _get_milvus_datatype, _create_index_params and _get_index_info on the   *)
(* field list of a schema.                                                 *)
(***************************************************************************)
\* the type names a meta.json may give: the sixteen of the table, and others
TypeNames == (DOMAIN TypeMapping) \cup {"Mystery", "varchar", ""}

SchemaFieldNames == {"a", "b"}

SchemaFields == {Field(n, t, FALSE, FALSE) : n \in SchemaFieldNames, t \in TypeNames}

InitSchema ==
    /\ Idle
    /\ target = NoTarget
    /\ target0 = target
    /\ calls = <<>>
    /\ faults = 0
    /\ connection = Connected
    /\ \E fields \in SeqsUpTo(SchemaFields, MaxSchemaFields) :
          lab = [op |-> "schema", fields |-> fields, datatypes |-> <<>>,
                 derived |-> FALSE, index_params |-> <<>>, index_info |-> <<>>]

\* self._get_milvus_datatype(field_info["type"]) for the next field, as the loop of
\* _create_schema calls it; the loop ends where it raises
LookupType ==
    /\ lab.op = "schema"
    /\ Len(lab.datatypes) < Len(lab.fields)
    /\ \A k \in 1..Len(lab.datatypes) : lab.datatypes[k].ok
    /\ lab' = [lab EXCEPT !.datatypes =
                   Append(@, GetMilvusDatatype(lab.fields[Len(lab.datatypes) + 1].type))]
    /\ UNCHANGED <<locals, target, target0, calls, faults, connection>>

\* self._create_index_params(metadata) and self._get_index_info(name, metadata)
DeriveIndexes ==
    /\ lab.op = "schema"
    /\ ~lab.derived
    /\ lab' = [lab EXCEPT !.derived = TRUE,
                          !.index_params = CreateIndexParams(lab.fields),
                          !.index_info = GetIndexInfo(lab.fields)]
    /\ UNCHANGED <<locals, target, target0, calls, faults, connection>>

NextSchema ==
    \/ LookupType
    \/ DeriveIndexes

SpecSchema == InitSchema /\ [][NextSchema]_vars

(***************************************************************************)
(* _convert_single_vector_data on one value.                               *)
(***************************************************************************)
\* the keys a sparse vector may have: "3", "7", "9", "03" and "x"
SparseKeys == {<<3>>, <<7>>, <<9>>, <<0, 3>>, <<ChX>>}

\* its weights: two numbers and None
Weights == {1, 2, Null}

\* a dict has each key once: its items, in order
Items(n) ==
    {it \in [1..n -> SparseKeys \X Weights] :
        \A j, k \in 1..n : j # k => it[j][1] # it[k][1]}

SparseDicts ==
    UNION {{StrDict([k \in 1..n |-> it[k][1]], [k \in 1..n |-> it[k][2]]) : it \in Items(n)} :
              n \in 0..MaxEntries}

\* what is no dict: a list, a number, None
NoDicts == {ListVal(<<1, 2>>), ListVal(<<1>>), IntVal(1), NoneVal}

InitCodec ==
    /\ Idle
    /\ target = NoTarget
    /\ target0 = target
    /\ calls = <<>>
    /\ faults = 0
    /\ connection = Connected
    /\ \E vector_data \in SparseDicts \cup NoDicts, field_type \in VectorNames :
          lab = [op |-> "codec", vector_data |-> vector_data, field_type |-> field_type,
                 returned |-> FALSE, out |-> Ok(NoneVal)]

\* self._convert_single_vector_data(vector_data, field_type)
ConvertVector ==
    /\ lab.op = "codec"
    /\ ~lab.returned
    /\ lab' = [lab EXCEPT !.returned = TRUE,
                          !.out = ConvertSingleVectorData(lab.vector_data, lab.field_type,
                                                          ml_dtypes)]
    /\ UNCHANGED <<locals, target, target0, calls, faults, connection>>

NextCodec == ConvertVector

SpecCodec == InitCodec /\ [][NextCodec]_vars

(***************************************************************************)
(* test_connection and close on an object whose insert_data is not called. *)
(***************************************************************************)
InitClient ==
    /\ Idle
    /\ \E existing \in SUBSET CollectionNames :
          target = [collections |-> existing,
                    rows |-> [n \in CollectionNames |-> IF n \in existing THEN 1 ELSE 0],
                    flushed |-> {}, loaded |-> {}]
    /\ target0 = target
    /\ calls = <<>>
    /\ faults = 0
    /\ connection = Connected
    /\ lab = [op |-> "probe", returned |-> <<>>]

\* what client.list_collections may do: on a closed client, either
ProbeOutcomes == IF connection.open THEN Outcomes ELSE BOOLEAN

\* a faulty variant: the probe reports success whatever list_collections did
TestConnectionAlwaysTrue ==
    /\ lab.op = "probe"
    /\ Len(lab.returned) < MaxProbes
    /\ \E ok \in ProbeOutcomes :
          /\ calls' = Append(calls,
                 ClientCall("list_collections", "", <<>>, <<>>, <<>>, ok))
          /\ faults' = IF ok \/ faults = MaxFaults THEN faults ELSE faults + 1
          /\ lab' = [lab EXCEPT !.returned = Append(@, TRUE)]
    /\ UNCHANGED <<locals, target, target0, connection>>

\* lines 492-503: True when client.list_collections returns, False when it raises
TestConnection ==
    /\ lab.op = "probe"
    /\ Len(lab.returned) < MaxProbes
    /\ \E ok \in ProbeOutcomes :
          /\ calls' = Append(calls,
                 ClientCall("list_collections", "", <<>>, <<>>, <<>>, ok))
          /\ faults' = IF ok \/ faults = MaxFaults THEN faults ELSE faults + 1
          /\ lab' = [lab EXCEPT !.returned = Append(@, ok)]
    /\ UNCHANGED <<locals, target, target0, connection>>

NextClient ==
    \/ TestConnection
    \/ Close

SpecClient == InitClient /\ [][NextClient]_vars

(***************************************************************************)
(* What the histories say.                                                 *)
(***************************************************************************)
CallsOf(op) == {k \in 1..Len(calls) : calls[k].op = op}

NumCalls(op) == Cardinality(CallsOf(op))

IsFailed(a) == a.outcome # "ok"

IsSubmitted(a) == a.outcome # "convert_error"

\* ceil(n / size) for size >= 1
NumBatches(n, size) == (n + size - 1) \div size

\* how many batches of the f-th file read have been attempted
BatchesDone(f) ==
    IF args.batch_size = 0 THEN 0
    ELSE IF pc = "batch" /\ f = file_idx THEN i \div args.batch_size
    ELSE NumBatches(files_read[f].n, args.batch_size)

\* the batches that must have been attempted by now: those of each file read, in
\* ascending offset, the files in the order read
RECURSIVE ExpectedKeys(_)
ExpectedKeys(f) ==
    IF f > Len(files_read) THEN <<>>
    ELSE [b \in 1..BatchesDone(f) |-> <<f, (b - 1) * args.batch_size>>]
         \o ExpectedKeys(f + 1)

AttemptKeys == [k \in 1..Len(attempts) |-> <<attempts[k].file_no, attempts[k].offset>>]

\* the rows of the batch of an attempt, from the length of its file
RowsOf(a) == Min(args.batch_size, files_read[a.file_no].n - a.offset)

RECURSIVE SumOkAttempts(_)
SumOkAttempts(as) ==
    IF as = <<>> THEN 0
    ELSE (IF Head(as).outcome = "ok" THEN RowsOf(Head(as)) ELSE 0) + SumOkAttempts(Tail(as))

RECURSIVE SumOkInserts(_)
SumOkInserts(cs) ==
    IF cs = <<>> THEN 0
    ELSE (IF Head(cs).op = "insert" /\ Head(cs).ok THEN Len(Head(cs).data) ELSE 0)
         + SumOkInserts(Tail(cs))

IsPrefix(s, t) == Len(s) <= Len(t) /\ SubSeq(t, 1, Len(s)) = s

(***************************************************************************)
(* C1.  Once the collection is created, every batch of every data file is  *)
(* attempted exactly when its turn comes and at most once, whatever        *)
(* happened to earlier batches: the batches attempted so far are exactly   *)
(* the batches of the files read so far, each once; each is submitted to   *)
(* client.insert at most once; and a step that handles a batch, failed or  *)
(* not, neither raises nor returns but moves on in the loop.               *)
(***************************************************************************)
C1_Attempted ==
    /\ AttemptKeys = ExpectedKeys(1)
    /\ \A k \in 1..Len(attempts) : attempts[k].file = parquet_files[attempts[k].file_no]
    /\ NumCalls("insert") = Len(SelectSeq(attempts, IsSubmitted))
    /\ pc = "batch" => result.kind = "none"

C1_BatchStep ==
    pc = "batch" =>
        /\ pc' \in {"batch", "read"}
        /\ result' = result
        /\ Len(attempts') = Len(attempts) + 1
        /\ Len(calls') <= Len(calls) + 1

C1_EveryBatchOnceNoAbort == []C1_Attempted /\ [][C1_BatchStep]_vars

\* a batch failed at submission, and a batch of a later file was inserted
C1_Witness ==
    /\ pc = "done"
    /\ \E j, k \in 1..Len(attempts) :
          /\ j < k
          /\ attempts[j].outcome = "insert_error"
          /\ attempts[k].outcome = "ok"
          /\ attempts[j].file_no < attempts[k].file_no

(***************************************************************************)
(* C2.  total_inserted is the sum of the row counts of exactly the batches *)
(* that were converted and inserted successfully, and the report carries   *)
(* it; the rows of a failed batch are not counted.                         *)
(***************************************************************************)
C2_TotalInserted ==
    /\ total_inserted = SumOkAttempts(attempts)
    /\ total_inserted = SumOkInserts(calls)
    /\ pc = "done" => result.total_inserted = total_inserted

\* three batches, the second failed: the total covers the first and the third
C2_Witness ==
    /\ pc = "done"
    /\ Len(attempts) = 3
    /\ attempts[1].outcome = "ok"
    /\ attempts[2].outcome # "ok"
    /\ attempts[3].outcome = "ok"
    /\ result.total_inserted = RowsOf(attempts[1]) + RowsOf(attempts[3])

(***************************************************************************)
(* C3.  failed_batches holds one entry per failed batch and none for a     *)
(* successful one, in the order the failures occurred; each entry names    *)
(* the file the batch was read from and the batch's 0-based index (row     *)
(* offset divided by batch_size); and entries are only ever appended.      *)
(***************************************************************************)
C3_Entries ==
    LET failed == SelectSeq(attempts, IsFailed)
    IN  /\ Len(failed_batches) = Len(failed)
        /\ \A k \in 1..Len(failed) :
              /\ failed_batches[k].file = files_read[failed[k].file_no].name
              /\ failed_batches[k].batch = failed[k].offset \div args.batch_size
        /\ pc = "done" => result.failed_batches = failed_batches

C3_AppendOnly == IsPrefix(failed_batches, failed_batches')

C3_FailedBatches == []C3_Entries /\ [][C3_AppendOnly]_vars

\* two failures in two files; the second batch of the first file is entry 1
C3_Witness ==
    /\ pc = "done"
    /\ Len(failed_batches) = 2
    /\ failed_batches[1].batch = 1
    /\ failed_batches[1].file # failed_batches[2].file
    /\ \E k \in 1..Len(attempts) : attempts[k].outcome = "ok"

(***************************************************************************)
(* C4.  Every unmet validation condition (no dataset path, no meta.json,   *)
(* metadata without the collection name or the field list, no data file)   *)
(* aborts insert_data before any call to the target client.                *)
(***************************************************************************)
ValidationErrors ==
    {"FileNotFoundError: Data path not found", "FileNotFoundError: meta.json not found",
     "KeyError", "FileNotFoundError: No parquet files found"}

C4_ValidationBeforeAnyCall ==
    (pc = "raised" /\ result.error \in ValidationErrors) => calls = <<>>

(***************************************************************************)
(* C5.  When insert_data aborts with a pre-flight fatal error (unknown     *)
(* field type, malformed metadata, no data files), the target is as it was *)
(* before the call: nothing was dropped and nothing was created.           *)
(***************************************************************************)
PreflightErrors ==
    {"ValueError: Unknown field type", "JSONDecodeError", "KeyError",
     "FileNotFoundError: No parquet files found"}

C5_NoPartialState ==
    (pc = "raised" /\ result.error \in PreflightErrors) =>
        /\ target = target0
        /\ \A k \in 1..Len(calls) :
              calls[k].op \in {"drop_collection", "create_collection"} => ~calls[k].ok

(***************************************************************************)
(* C6.  If the collection exists and drop_if_exists is false, insert_data  *)
(* fails with the conflict error once has_collection has answered, having  *)
(* made no other client call, and the collection is still there, untouched.*)
(***************************************************************************)
ConflictError == "ValueError: already exists"

C6_ConflictPolicy ==
    /\ result.error = ConflictError =>
          /\ pc = "raised"
          /\ Len(calls) = 1
          /\ calls[1].op = "has_collection"
          /\ final_collection_name \in target.collections
          /\ target = target0
    /\ ( /\ pc \notin {"validate", "has_collection"}
         /\ calls # <<>>
         /\ calls[1].ok
         /\ final_collection_name \in target0.collections
         /\ ~args.drop_if_exists ) => result.error = ConflictError

\* the conflict error was raised against an existing collection
C6_Witness ==
    /\ result.error = ConflictError
    /\ final_collection_name \in target0.collections
    /\ ~args.drop_if_exists
    /\ target.rows[final_collection_name] = 1

(***************************************************************************)
(* C7, as stated, read in its favour for the runs whose loop over the      *)
(* files runs to completion: such a run calls flush exactly once, after    *)
(* the last batch, and load_collection exactly once, after flush.          *)
(***************************************************************************)
ReachedInsertion == parquet_files # <<>>

Ended == pc \in {"done", "raised"}

LoopCompleted ==
    result.error \notin {"read_parquet", "ValueError: range() arg 3 must not be zero"}

C7_AsStated ==
    (Ended /\ ReachedInsertion /\ LoopCompleted) =>
        /\ NumCalls("flush") = 1
        /\ NumCalls("load_collection") = 1
        /\ \A f \in CallsOf("flush") :
              /\ \A k \in CallsOf("insert") : k < f
              /\ \A l \in CallsOf("load_collection") : f < l

(***************************************************************************)
(* C7, amended.  flush is called at most once, and only after every batch  *)
(* of every file has been attempted (succeeded or failed), and no insert   *)
(* follows it; it is called exactly once in every run whose loop over the  *)
(* files completes (no file read fails, batch_size is not 0).              *)
(* load_collection is called at most once, only after flush succeeded, and *)
(* exactly once in every run where flush succeeded.                        *)
(***************************************************************************)
C7_FlushThenLoad ==
    /\ NumCalls("flush") <= 1
    /\ NumCalls("load_collection") <= 1
    /\ \A f \in CallsOf("flush") :
          /\ \A k \in CallsOf("insert") : k < f
          /\ Len(files_read) = Len(parquet_files)
          /\ pc # "batch"
          /\ AttemptKeys = ExpectedKeys(1)
    /\ \A l \in CallsOf("load_collection") :
          \E f \in CallsOf("flush") : f < l /\ calls[f].ok
    /\ (Ended /\ ReachedInsertion /\ LoopCompleted) => NumCalls("flush") = 1
    /\ (Ended /\ \E f \in CallsOf("flush") : calls[f].ok) => NumCalls("load_collection") = 1

\* a run over two files with a failed batch ended with flush and load_collection
C7_Witness ==
    /\ pc = "done"
    /\ Len(parquet_files) = 2
    /\ failed_batches # <<>>
    /\ Len(attempts) >= 3
    /\ calls[Len(calls) - 1].op = "flush"
    /\ calls[Len(calls)].op = "load_collection"

(***************************************************************************)
(* C8.  A failed flush or load_collection is fatal: it is the last call,   *)
(* its error leaves insert_data and no report is returned.  A report is    *)
(* returned only when load_collection has just succeeded, and it says      *)
(* collection_loaded.                                                      *)
(***************************************************************************)
C8_FlushLoadFatal ==
    /\ \A k \in CallsOf("flush") \cup CallsOf("load_collection") :
          ~calls[k].ok =>
              /\ k = Len(calls)
              /\ pc = "raised"
              /\ result.kind = "error"
              /\ result.error = IF calls[k].op = "flush" THEN "ClientError: flush"
                                ELSE "ClientError: load_collection"
    /\ result.kind = "report" =>
          /\ pc = "done"
          /\ result.collection_loaded
          /\ calls[Len(calls)].op = "load_collection"
          /\ calls[Len(calls)].ok
          /\ final_collection_name \in target.loaded
          /\ final_collection_name \in target.flushed
    /\ pc = "done" => result.kind = "report"

\* load_collection failed after a successful flush
C8_Witness ==
    /\ pc = "raised"
    /\ calls # <<>>
    /\ calls[Len(calls)].op = "load_collection"
    /\ ~calls[Len(calls)].ok
    /\ final_collection_name \in target.flushed
    /\ total_inserted > 0

AutoIdNames ==
    {fs.doc.fields[k].name : k \in {j \in 1..Len(fs.doc.fields) : fs.doc.fields[j].auto_id}}

C10_AutoIdNeverSubmitted ==
    \A k \in CallsOf("insert") :
        \A r \in 1..Len(calls[k].data) : Keys(calls[k].data[r]) \cap AutoIdNames = {}

\* records were submitted from data that has the column of the auto_id primary field
C10_Witness ==
    /\ \E k \in 1..Len(fs.doc.fields) :
          /\ fs.doc.fields[k].auto_id
          /\ fs.doc.fields[k].is_primary
          /\ fs.doc.fields[k].name \in fs.columns
    /\ \E k \in CallsOf("insert") :
          /\ calls[k].data # <<>>
          /\ \A r \in 1..Len(calls[k].data) : Keys(calls[k].data[r]) = {"v"}

(***************************************************************************)
(* C11.  A declared field that is not a column of the data is left out of  *)
(* every record and raises nothing: the keys of each record passed to      *)
(* client.insert are exactly the names of the declared fields that are     *)
(* columns of the data and are not auto_id fields, and no batch fails with *)
(* a KeyError.                                                             *)
(***************************************************************************)
DeclaredNames == {fs.doc.fields[k].name : k \in 1..Len(fs.doc.fields)}

ProjectedNames == (DeclaredNames \cap fs.columns) \ AutoIdNames

C11_ProjectedKeys ==
    /\ \A k \in CallsOf("insert") :
          \A r \in 1..Len(calls[k].data) : Keys(calls[k].data[r]) = ProjectedNames
    /\ \A k \in 1..Len(failed_batches) : failed_batches[k].error # "KeyError"

\* records were submitted from data that lacks the column of a declared field that
\* is not auto_id
C11_Witness ==
    /\ \E k \in 1..Len(fs.doc.fields) :
          /\ ~fs.doc.fields[k].auto_id
          /\ fs.doc.fields[k].name \notin fs.columns
    /\ ProjectedNames # {}
    /\ \E k \in CallsOf("insert") : calls[k].ok /\ calls[k].data # <<>>

(***************************************************************************)
(* C12.  _get_milvus_datatype returns the client's type constant for each  *)
(* of the sixteen type names, the same VARCHAR for String and VarChar, and *)
(* raises 'Unknown field type' for any other name; it calls nothing and    *)
(* changes nothing.                                                        *)
(***************************************************************************)
NativeConstant(type_name) ==
    CASE type_name = "Bool" -> "BOOL"
      [] type_name = "Int8" -> "INT8"
      [] type_name = "Int16" -> "INT16"
      [] type_name = "Int32" -> "INT32"
      [] type_name = "Int64" -> "INT64"
      [] type_name = "Float" -> "FLOAT"
      [] type_name = "Double" -> "DOUBLE"
      [] type_name = "String" -> "VARCHAR"
      [] type_name = "VarChar" -> "VARCHAR"
      [] type_name = "JSON" -> "JSON"
      [] type_name = "Array" -> "ARRAY"
      [] type_name = "FloatVector" -> "FLOAT_VECTOR"
      [] type_name = "BinaryVector" -> "BINARY_VECTOR"
      [] type_name = "Float16Vector" -> "FLOAT16_VECTOR"
      [] type_name = "BFloat16Vector" -> "BFLOAT16_VECTOR"
      [] type_name = "SparseFloatVector" -> "SPARSE_FLOAT_VECTOR"
      [] OTHER -> "none"

C12_TypeLookup ==
    lab.op = "schema" =>
        /\ \A k \in 1..Len(lab.datatypes) :
              LET type_name == lab.fields[k].type
                  r == lab.datatypes[k]
              IN  IF NativeConstant(type_name) # "none"
                  THEN r.ok /\ r.val = NativeConstant(type_name)
                  ELSE ~r.ok /\ r.err = "ValueError: Unknown field type"
        /\ calls = <<>>
        /\ target = target0
        /\ connection = Connected

\* String was looked up, then a name outside the table
C12_Witness ==
    /\ lab.op = "schema"
    /\ Len(lab.datatypes) = 2
    /\ lab.fields[1].type = "String"
    /\ lab.datatypes[1].val = "VARCHAR"
    /\ lab.fields[2].type = "varchar"
    /\ ~lab.datatypes[2].ok

(***************************************************************************)
(* C13.  The indexes derived from a field list are a function of the       *)
(* vector types alone: one index for each vector field, in order, and none *)
(* for any other field; SPARSE_INVERTED_INDEX with metric IP and           *)
(* drop_ratio_build 0.2 for a SparseFloatVector, the client's default      *)
(* index (reported as AUTOINDEX) with metric HAMMING for a BinaryVector    *)
(* and with metric L2 for every other vector type.                         *)
(***************************************************************************)
IsVectorField(f) ==
    f.type \in {"FloatVector", "BinaryVector", "Float16Vector", "BFloat16Vector",
                "SparseFloatVector"}

Unnamed(index) == [index EXCEPT !.field_name = "", !.index_name = <<>>]

C13_IndexDerivation ==
    (lab.op = "schema" /\ lab.derived) =>
        LET vector_fields == SelectSeq(lab.fields, IsVectorField)
            p == lab.index_params
            n == lab.index_info
        IN  /\ Len(p) = Len(vector_fields)
            /\ Len(n) = Len(vector_fields)
            /\ \A k \in 1..Len(vector_fields) :
                  LET f == vector_fields[k]
                  IN  /\ p[k].field_name = f.name
                      /\ n[k].field = f.name
                      /\ n[k].metric_type = p[k].metric_type
                      /\ IF f.type = "SparseFloatVector"
                         THEN /\ p[k].index_type = "SPARSE_INVERTED_INDEX"
                              /\ p[k].metric_type = "IP"
                              /\ p[k].drop_ratio_build = "0.2"
                              /\ n[k].index_type = "SPARSE_INVERTED_INDEX"
                         ELSE /\ p[k].index_type = ""
                              /\ p[k].drop_ratio_build = ""
                              /\ n[k].index_type = "AUTOINDEX"
                              /\ p[k].metric_type =
                                     IF f.type = "BinaryVector" THEN "HAMMING" ELSE "L2"
            /\ \A j, k \in 1..Len(vector_fields) :
                  vector_fields[j].type = vector_fields[k].type =>
                      Unnamed(p[j]) = Unnamed(p[k])

\* the indexes of a BinaryVector field and a field that is no vector were derived
C13_Witness ==
    /\ lab.op = "schema"
    /\ lab.derived
    /\ Len(lab.fields) = 2
    /\ lab.fields[1].type = "BinaryVector"
    /\ lab.fields[2].type = "Int64"
    /\ Len(lab.index_params) = 1
    /\ lab.index_params[1].metric_type = "HAMMING"

(***************************************************************************)
(* C14.  Converting a SparseFloatVector value that is a dict from          *)
(* string-encoded dimension indexes (integer literals, no two of the same  *)
(* integer) to a weight or None returns a dict whose keys are exactly the  *)
(* integers of the keys whose weight is not None, each with the weight it  *)
(* had; a value that is no dict is returned as it is.                      *)
(***************************************************************************)
Weighted(v) == {j \in 1..Len(v.vs) : v.vs[j] # Null}

EncodesIndexes(v) ==
    /\ \A j \in Weighted(v) : ParseInt(v.ks[j]).ok
    /\ \A j, k \in Weighted(v) : j # k => ParseInt(v.ks[j]).n # ParseInt(v.ks[k]).n

C14_SparseEncoding ==
    (lab.op = "codec" /\ lab.returned /\ lab.field_type = "SparseFloatVector") =>
        LET v == lab.vector_data
            out == lab.out
        IN  IF v.tag # "dict" THEN out.ok /\ out.val = v
            ELSE EncodesIndexes(v) =>
                    /\ out.ok
                    /\ out.val.tag = "dict"
                    /\ out.val.ks = <<>>
                    /\ Len(out.val.ik) = Cardinality(Weighted(v))
                    /\ Len(out.val.vs) = Len(out.val.ik)
                    /\ {out.val.ik[j] : j \in 1..Len(out.val.ik)} =
                           {ParseInt(v.ks[j]).n : j \in Weighted(v)}
                    /\ \A j \in Weighted(v) :
                          \E k \in 1..Len(out.val.ik) :
                              /\ out.val.ik[k] = ParseInt(v.ks[j]).n
                              /\ out.val.vs[k] = v.vs[j]

\* {"3": 1, "7": None, "9": 2} was converted to {3: 1, 9: 2}
C14_Witness ==
    /\ lab.op = "codec"
    /\ lab.returned
    /\ lab.field_type = "SparseFloatVector"
    /\ lab.vector_data = StrDict(<<<<3>>, <<7>>, <<9>>>>, <<1, Null, 2>>)
    /\ lab.out = Ok(IntDict(<<3, 9>>, <<1, 2>>))

(***************************************************************************)
(* C15.  When ml_dtypes cannot be imported, converting a BFloat16Vector    *)
(* value raises instead of returning the value as it was: no record passed *)
(* to client.insert holds the unconverted list of bytes of a               *)
(* BFloat16Vector field.                                                   *)
(***************************************************************************)
BFloat16Names ==
    {fs.doc.fields[k].name :
        k \in {j \in 1..Len(fs.doc.fields) : fs.doc.fields[j].type = "BFloat16Vector"}}

HoldsUnconverted(record) ==
    \E e \in 1..Len(record) : record[e][1] \in BFloat16Names /\ record[e][2].tag = "list"

C15_NoUnconvertedBFloat16 ==
    ~ml_dtypes =>
        \A k \in CallsOf("insert") :
            \A r \in 1..Len(calls[k].data) : ~HoldsUnconverted(calls[k].data[r])

(***************************************************************************)
(* C16.  Two calls of insert_data in succession, with drop_if_exists, on   *)
(* the same dataset and a target none of whose calls fails: as stated, the *)
(* two reports have the same total_inserted and empty failed_batches, and  *)
(* the collection holds the rows of one ingestion.                         *)
(***************************************************************************)
BothReported == prev.kind # "none" /\ prev.result.kind = "report" /\ pc = "done"

C16_AsStated ==
    BothReported =>
        /\ result.total_inserted = prev.result.total_inserted
        /\ result.failed_batches = <<>>
        /\ prev.result.failed_batches = <<>>
        /\ target.rows[final_collection_name] = result.total_inserted

(***************************************************************************)
(* C16, amended.  When the first call returns a report, the second call    *)
(* finds the collection, drops it once, and returns a report with the same *)
(* total_inserted and the same failed_batches, which are empty when every  *)
(* batch of the dataset converts; the collection then holds total_inserted *)
(* rows, those of one ingestion.                                           *)
(***************************************************************************)
C16_SecondCallRepeatsFirst ==
    (prev.kind # "none" /\ prev.result.kind = "report") =>
        /\ pc # "raised"
        /\ pc \notin {"validate", "has_collection"} =>
              final_collection_name \in target0.collections
        /\ pc \notin {"validate", "has_collection", "drop"} =>
              /\ Len(calls) >= 2
              /\ calls[2].op = "drop_collection"
        /\ pc = "done" =>
              /\ NumCalls("drop_collection") = 1
              /\ result.total_inserted = prev.result.total_inserted
              /\ result.failed_batches = prev.result.failed_batches
              /\ result.collection_name = prev.result.collection_name
              /\ (\A k \in 1..Len(attempts) : attempts[k].outcome # "convert_error")
                     => result.failed_batches = <<>>
              /\ target.rows[final_collection_name] = result.total_inserted

\* both calls returned a report of the same rows inserted, and the collection holds
\* them once
C16_Witness ==
    /\ BothReported
    /\ result.total_inserted = prev.result.total_inserted
    /\ result.total_inserted > 0
    /\ target.rows[final_collection_name] = result.total_inserted

(***************************************************************************)
(* C17.  On every way out of insert_data (a report, a failed validation, a *)
(* name conflict, a failed creation, flush or load) the connection made    *)
(* for the run has been released exactly once and is not left open.        *)
(***************************************************************************)
C17_ReleasedOnExit ==
    Ended => (~connection.open /\ connection.closes = 1)

(***************************************************************************)
(* C18.  test_connection never raises: it calls client.list_collections    *)
(* once and nothing else, returns True exactly when that call returns and  *)
(* False exactly when it raises, and changes no collection.                *)
(***************************************************************************)
C18_ProbeStep ==
    (lab.op = "probe" /\ lab'.returned # lab.returned) =>
        /\ Len(calls') = Len(calls) + 1
        /\ SubSeq(calls', 1, Len(calls)) = calls
        /\ calls'[Len(calls')].op = "list_collections"
        /\ lab'.returned = Append(lab.returned, calls'[Len(calls')].ok)
        /\ target' = target
        /\ connection' = connection
        /\ pc' = pc
        /\ result' = result

C18_BooleanProbe ==
    /\ [](lab.op = "probe" =>
             /\ pc = "idle"
             /\ target = target0
             /\ Len(lab.returned) = Len(calls)
             /\ \A k \in 1..Len(calls) :
                   calls[k].op = "list_collections" /\ lab.returned[k] = calls[k].ok)
    /\ [][C18_ProbeStep]_vars

\* the probe returned True once and False once
C18_Witness ==
    /\ lab.op = "probe"
    /\ \E j, k \in 1..Len(lab.returned) : lab.returned[j] /\ ~lab.returned[k]
    /\ target.collections # {}

(***************************************************************************)
(* C19.  The data files are taken in lexicographic order of their names,   *)
(* one at a time; the batches of a file are attempted in ascending batch   *)
(* index; and no batch of a later file is attempted before every batch of  *)
(* each earlier file has been.                                             *)
(***************************************************************************)
AttemptsOfFile(f) == {k \in 1..Len(attempts) : attempts[k].file_no = f}

C19_FileAndBatchOrder ==
    /\ \A j, k \in 1..Len(parquet_files) :
          j < k => LexLess(parquet_files[j], parquet_files[k])
    /\ Len(files_read) <= Len(parquet_files)
    /\ \A k \in 1..Len(files_read) : files_read[k].name = parquet_files[k]
    /\ \A k \in 1..Len(attempts) :
          /\ attempts[k].file_no <= Len(files_read)
          /\ attempts[k].file = files_read[attempts[k].file_no].name
          /\ \A f \in 1..(attempts[k].file_no - 1) :
                /\ \A j \in AttemptsOfFile(f) : j < k
                /\ Cardinality(AttemptsOfFile(f)) =
                       NumBatches(files_read[f].n, args.batch_size)
    /\ \A j, k \in 1..Len(attempts) :
          (j < k /\ attempts[j].file_no = attempts[k].file_no) =>
              /\ attempts[j].offset < attempts[k].offset
              /\ BatchIndex(attempts[j].offset, args.batch_size)
                     < BatchIndex(attempts[k].offset, args.batch_size)
    /\ pc = "batch" => Len(files_read) = file_idx

\* two batches of "ab" were attempted, then a batch of "b"
C19_Witness ==
    /\ parquet_files = <<<<ChA, ChB>>, <<ChB>>>>
    /\ Cardinality(AttemptsOfFile(1)) = 2
    /\ Cardinality(AttemptsOfFile(2)) >= 1

(***************************************************************************)
(* C20.  drop_collection is called only when has_collection found the      *)
(* collection and drop_if_exists is true, then exactly once and before     *)
(* create_collection; it is never called for a collection that does not    *)
(* exist, whatever drop_if_exists is.                                      *)
(***************************************************************************)
C20_DropOnlyToReplace ==
    /\ NumCalls("drop_collection") <= 1
    /\ \A d \in CallsOf("drop_collection") :
          /\ args.drop_if_exists
          /\ calls[d].collection_name = final_collection_name
          /\ final_collection_name \in target0.collections
          /\ d = 2
          /\ calls[1].op = "has_collection" /\ calls[1].ok
          /\ \A c \in CallsOf("create_collection") : d < c
    /\ \A c \in CallsOf("create_collection") :
          (final_collection_name \in target0.collections) =>
              (NumCalls("drop_collection") = 1 /\ calls[2].ok)
    /\ final_collection_name \notin target0.collections =>
          NumCalls("drop_collection") = 0

\* an existing collection was dropped, then created
C20_Witness ==
    /\ final_collection_name \in target0.collections
    /\ NumCalls("drop_collection") = 1
    /\ NumCalls("create_collection") = 1
    /\ pc = "done"

(***************************************************************************)
(* C21.  With batch_size >= 1 the batches of a file of n rows are          *)
(* contiguous slices that partition its rows: ceil(n / batch_size)         *)
(* batches, each of batch_size rows but possibly the last, which has       *)
(* between 1 and batch_size rows, every row in exactly one batch, and each *)
(* submitted batch is one insert call of as many records; a file of 0 rows *)
(* yields no batch and no insert call.                                     *)
(***************************************************************************)
Ceil(n, size) == IF n % size = 0 THEN n \div size ELSE n \div size + 1

\* the batches attempted of the f-th file read, in the order attempted
BatchesOfFile(f) == SelectSeq(attempts, LAMBDA a : a.file_no = f)

RECURSIVE Joined(_)
Joined(batches) ==
    IF batches = <<>> THEN <<>> ELSE Head(batches).rows \o Joined(Tail(batches))

\* whether every batch of the f-th file read has been attempted
FileFinished(f) == ~(pc = "batch" /\ f = file_idx)

C21_BatchesPartitionFile ==
    args.batch_size >= 1 =>
        /\ \A f \in 1..Len(files_read) :
              LET batches == BatchesOfFile(f)
                  rows == files_read[f].rows
              IN  /\ \A b \in 1..Len(batches) :
                        /\ batches[b].offset = (b - 1) * args.batch_size
                        /\ Len(batches[b].rows) >= 1
                        /\ Len(batches[b].rows) <= args.batch_size
                        /\ b < Ceil(Len(rows), args.batch_size) =>
                              Len(batches[b].rows) = args.batch_size
                  /\ Joined(batches) = SubSeq(rows, 1, Len(Joined(batches)))
                  /\ FileFinished(f) =>
                        /\ Len(batches) = Ceil(Len(rows), args.batch_size)
                        /\ Joined(batches) = rows
                  /\ Len(rows) = 0 => batches = <<>>
        /\ NumCalls("insert") = Len(SelectSeq(attempts, IsSubmitted))
        /\ LET submitted == SelectSeq(attempts, IsSubmitted)
               inserts == SelectSeq(calls, LAMBDA c : c.op = "insert")
           IN  \A k \in 1..Len(inserts) :
                   Len(inserts[k].data) = Len(submitted[k].rows)

\* a file of two rows went in two batches of one row, and a file of no rows in none
C21_Witness ==
    /\ pc = "done"
    /\ args.batch_size = 1
    /\ Len(files_read) = 2
    /\ Len(files_read[1].rows) = 2
    /\ Len(files_read[2].rows) = 0
    /\ Len(BatchesOfFile(1)) = 2
    /\ NumCalls("insert") = 2

(***************************************************************************)
(* C22.  When converting a row of a batch raises, client.insert is not     *)
(* called for the batch, none of its rows is counted in total_inserted,    *)
(* exactly one entry is appended to failed_batches for it, and the loop    *)
(* goes on to the next batch; a batch whose insert call fails is handled   *)
(* in the same way, its entry differing in the error it reports only.      *)
(***************************************************************************)
\* converting the batch at offset i of the current file
CurrentBatchConverted ==
    ConvertDataframeToDictList(
        [columns |-> df.columns, rows |-> SubSeq(df.rows, i + 1,
                                                 Min(i + args.batch_size, Len(df.rows)))],
        fs.doc.fields, ml_dtypes)

\* how a failed batch is handled, whatever failed
HandledAsFailure ==
    /\ total_inserted' = total_inserted
    /\ target' = target
    /\ Len(failed_batches') = Len(failed_batches) + 1
    /\ SubSeq(failed_batches', 1, Len(failed_batches)) = failed_batches
    /\ failed_batches'[Len(failed_batches')].file = parquet_files[file_idx]
    /\ failed_batches'[Len(failed_batches')].batch = i \div args.batch_size
    /\ result' = result
    /\ i' = i + args.batch_size
    /\ IF i + args.batch_size < Len(df.rows)
       THEN pc' = "batch" /\ file_idx' = file_idx
       ELSE pc' = "read" /\ file_idx' = file_idx + 1

C22_FailedBatchStep ==
    pc = "batch" =>
        /\ ~CurrentBatchConverted.ok =>
              /\ calls' = calls
              /\ HandledAsFailure
              /\ failed_batches'[Len(failed_batches')].error = CurrentBatchConverted.err
        /\ (calls' # calls /\ ~calls'[Len(calls')].ok) =>
              /\ CurrentBatchConverted.ok
              /\ HandledAsFailure
              /\ failed_batches'[Len(failed_batches')].error = "ClientError: insert"

C22_ConversionRecorded ==
    /\ \A k \in 1..Len(attempts) :
          attempts[k].outcome = "convert_error" =>
              Cardinality({j \in 1..Len(failed_batches) :
                              /\ failed_batches[j].file = attempts[k].file
                              /\ failed_batches[j].batch =
                                     attempts[k].offset \div args.batch_size}) = 1
    /\ NumCalls("insert") =
           Len(attempts) - Len(SelectSeq(attempts, LAMBDA a : a.outcome = "convert_error"))
    /\ total_inserted =
           Len(Joined(SelectSeq(attempts, LAMBDA a : a.outcome = "ok")))

C22_ConversionErrorIsolated == []C22_ConversionRecorded /\ [][C22_FailedBatchStep]_vars

\* the first batch of a file failed to convert, the next one was inserted
C22_Witness ==
    /\ pc = "done"
    /\ Len(attempts) >= 2
    /\ attempts[1].outcome = "convert_error"
    /\ attempts[2].outcome = "ok"
    /\ attempts[1].file_no = attempts[2].file_no
    /\ NumCalls("insert") = Len(attempts) - 1
    /\ Len(failed_batches) = 1
    /\ failed_batches[1].error = "ValueError: invalid literal for int()"
    /\ result.total_inserted = Len(attempts[2].rows)

(***************************************************************************)
(* C23: the show_progress flag does not change the outcome of insert_data. *)
(* For the same dataset, options and target behaviour, the call without    *)
(* the progress bar makes the client calls the call with it made, in the   *)
(* same order and with the same arguments, and ends as it ended: the same  *)
(* report (total_inserted, failed_batches, indexes_created,                *)
(* collection_loaded) or the same fatal error.                             *)
(***************************************************************************)
\* the call without the progress bar has ended
ReplayEnded == prev.replay /\ pc \in {"done", "raised"}

\* C23: while the call without the progress bar runs, its client calls are
\* the first client calls of the call with the progress bar; when it ends it
\* has made all of them and its result is the result of that call
C23_ProgressFlagIrrelevant ==
    prev.replay =>
        /\ ~args.show_progress
        /\ Len(calls) <= Len(prev.calls)
        /\ \A k \in 1..Len(calls) : calls[k] = prev.calls[k]
        /\ ReplayEnded => /\ calls = prev.calls
                          /\ result = prev.result
                          /\ files_read = prev.files_read

\* both calls end with a report that counts inserted rows and lists a failed
\* batch
C23_Witness ==
    /\ ReplayEnded
    /\ pc = "done"
    /\ prev.result.kind = "report"
    /\ prev.result.total_inserted >= 1
    /\ Len(prev.result.failed_batches) >= 1
    /\ Len(calls) >= 2

====
